---- MODULE Spec2Model ----
(***************************************************************************)
(* Line-ending measurement and conversion of the crlf crate (src/lib.rs)   *)
(* and the way src/main.rs drives it.                                      *)
(*                                                                         *)
(* A call is one run of CrlfStat::measure_file or convert_to over a byte   *)
(* stream.  Each loop iteration of the two functions is one action.  The   *)
(* BufWriter that convert_to wraps around its sink is modelled with its    *)
(* internal buffer, so that what reaches the sink, and when, is explicit.  *)
(*                                                                         *)
(* Spec   : calls over in-memory streams (Cursor source, Vec sink, as in   *)
(*          test_convert and in main.rs), chained: the output of one call  *)
(*          is the input of the next.                                      *)
(* SpecIO : one call over an arbitrary Read / Write pair: a read may fail  *)
(*          at any iteration and the sink may run out of room.             *)
(***************************************************************************)
EXTENDS Integers, Sequences, FiniteSets, TLC

VARIABLES
    src,        \* the whole content of the stream handed to the call
    rest,       \* the part of src the BufReader has not delivered yet
    action,     \* which operation runs: "Measure", "SetCrlf", "SetLf"
    pc,         \* "loop": at the top of the loop; "break": left the loop;
                \* "done": the function has returned
    stat,       \* CrlfStat { lf, crlf }
    pure,       \* stat.is_pure() as read by the caller after measure_file
    bufw,       \* bytes held in the BufWriter's internal buffer
    sink,       \* bytes the underlying writer has accepted
    sinkKind,   \* "vec", "slice" or "disk"
    sinkRoom,   \* bytes a "slice" / "disk" sink still accepts
    result,     \* "running", "Ok" or "Err"
    readFailed, \* a read_until call returned Err during this call
    hist        \* the calls completed before this one: <<[action, src], ...>>

vars == <<src, rest, action, pc, stat, pure, bufw, sink, sinkKind, sinkRoom,
          result, readFailed, hist>>

----------------------------------------------------------------------------
(* Bounds *)

MaxLen == 5

MaxCalls == 2

MaxRoom == 2

WriterCap == 2

----------------------------------------------------------------------------
(* Constants of the program *)

CR == 13

LF == 10

\* CR, LF and one byte that is neither
Byte == {CR, LF, 97}

Inputs == UNION {[1..n -> Byte] : n \in 0..MaxLen}

Action == {"Measure", "SetCrlf", "SetLf"}

CRLF_BUF == <<CR, LF>>

LF_BUF == <<LF>>

Target(a) == IF a = "SetCrlf" THEN "CRLF" ELSE "LF"

----------------------------------------------------------------------------
(* Helpers on byte sequences *)

Min(a, b) == IF a < b THEN a ELSE b

Last(s) == s[Len(s)]

DropFirst(s, n) == SubSeq(s, n + 1, Len(s))

\* BufRead::read_until(LF, buf) on a stream holding s: the bytes up to and
\* including the first LF, or all of s when it has none.
read_until(s) ==
    IF \E i \in 1..Len(s) : s[i] = LF
    THEN LET i == CHOOSE i \in 1..Len(s) :
                      s[i] = LF /\ \A j \in 1..(i - 1) : s[j] # LF
         IN SubSeq(s, 1, i)
    ELSE s

----------------------------------------------------------------------------
(* CrlfStat *)

CrlfStat_new == [lf |-> 0, crlf |-> 0]

is_pure_swapped(st) ==
    IF st.lf = 0 /\ st.crlf # 0 THEN "LF"
    ELSE IF st.lf # 0 /\ st.crlf = 0 THEN "CRLF"
    ELSE "None"

is_pure(st) ==
    IF st.lf = 0 /\ st.crlf # 0 THEN "CRLF"
    ELSE IF st.lf # 0 /\ st.crlf = 0 THEN "LF"
    ELSE "None"

\* the test of lib.rs line 70
IsCrlfChunk(buf) == Len(buf) >= 2 /\ buf[Len(buf) - 1] = CR

TallySkipsShort(st, buf) ==
    IF IsCrlfChunk(buf) THEN [st EXCEPT !.crlf = @ + 1]
    ELSE IF Len(buf) >= 2 THEN [st EXCEPT !.lf = @ + 1]
    ELSE st

Tally(st, buf) ==
    IF IsCrlfChunk(buf) THEN [st EXCEPT !.crlf = @ + 1]
    ELSE [st EXCEPT !.lf = @ + 1]

----------------------------------------------------------------------------
(* convert_to: one iteration *)

HasLineEndingAlways(buf) == buf # <<>>

HasLineEnding(buf) == IF buf = <<>> THEN FALSE ELSE Last(buf) = LF

StripEndingKeepsCR(buf) ==
    IF HasLineEnding(buf) THEN SubSeq(buf, 1, Len(buf) - 1) ELSE buf

StripEnding(buf) ==
    IF HasLineEnding(buf)
    THEN LET b == SubSeq(buf, 1, Len(buf) - 1)
         IN IF b # <<>> /\ Last(b) = CR THEN SubSeq(b, 1, Len(b) - 1) ELSE b
    ELSE buf

TerminatorAlwaysLF(e) == LF_BUF

Terminator(e) == IF e = "CRLF" THEN CRLF_BUF ELSE LF_BUF

----------------------------------------------------------------------------
(* BufWriter over the sink.  w = [buf, sink, kind, room, err] *)

Accept(w, n) == IF w.kind = "vec" THEN n ELSE Min(n, w.room)

\* W::write(bytes) of the underlying writer; the count it returns is not
\* looked at by convert_to.
inner_write(w, bytes) ==
    LET n == Accept(w, Len(bytes))
    IN IF w.kind = "disk" /\ n = 0 /\ Len(bytes) > 0
       THEN [w EXCEPT !.err = TRUE]
       ELSE [w EXCEPT !.sink = @ \o SubSeq(bytes, 1, n),
                      !.room = IF w.kind = "vec" THEN @ ELSE @ - n]

\* BufWriter::flush_buf: write the buffer out until it is empty; a writer
\* that takes no more bytes makes it fail with the rest still buffered.
flush_buf(w) ==
    LET k == Len(w.buf)
        n == Accept(w, k)
    IN [w EXCEPT !.sink = @ \o SubSeq(w.buf, 1, n),
                 !.buf = SubSeq(w.buf, n + 1, k),
                 !.room = IF w.kind = "vec" THEN @ ELSE @ - n,
                 !.err = (n < k)]

\* BufWriter::write
BufWrite(w, bytes) ==
    IF Len(bytes) < WriterCap - Len(w.buf)
    THEN [w EXCEPT !.buf = @ \o bytes]
    ELSE LET f == IF Len(bytes) > WriterCap - Len(w.buf)
                  THEN flush_buf(w) ELSE w
         IN IF f.err THEN f
            ELSE IF Len(bytes) >= WriterCap THEN inner_write(f, bytes)
            ELSE [f EXCEPT !.buf = @ \o bytes]

\* Drop of the BufWriter: flush_buf with its result thrown away.
BufDrop(w) == [flush_buf(w) EXCEPT !.err = FALSE]

Writer == [buf |-> bufw, sink |-> sink, kind |-> sinkKind,
           room |-> sinkRoom, err |-> FALSE]

\* the body of the loop of convert_to after a non-empty read
ConvertChunk(w, buf, e) ==
    LET w1 == BufWrite(w, StripEnding(buf))
    IN IF w1.err THEN w1
       ELSE IF HasLineEnding(buf) THEN BufWrite(w1, Terminator(e))
       ELSE w1

RECURSIVE ConvertLoop(_, _, _)
ConvertLoop(w, s, e) ==
    IF s = <<>> THEN BufDrop(w)
    ELSE LET buf == read_until(s)
             w1 == ConvertChunk(w, buf, e)
         IN IF w1.err THEN BufDrop(w1)
            ELSE ConvertLoop(w1, DropFirst(s, Len(buf)), e)

\* convert_to(Cursor(s), Vec, e): the bytes left in the Vec
convert_to(s, e) ==
    ConvertLoop([buf |-> <<>>, sink |-> <<>>, kind |-> "vec", room |-> 0,
                 err |-> FALSE], s, e).sink

----------------------------------------------------------------------------
(* Initial states *)

InitCall ==
    /\ src \in Inputs
    /\ rest = src
    /\ action \in Action
    /\ pc = "loop"
    /\ stat = CrlfStat_new
    /\ pure = "unset"
    /\ bufw = <<>>
    /\ sink = <<>>
    /\ result = "running"
    /\ readFailed = FALSE
    /\ hist = <<>>

Init ==
    /\ InitCall
    /\ sinkKind = "vec"
    /\ sinkRoom = 0

InitIO ==
    /\ InitCall
    /\ \/ sinkKind = "vec" /\ sinkRoom = 0
       \/ sinkKind \in {"slice", "disk"} /\ sinkRoom \in 0..MaxRoom

----------------------------------------------------------------------------
(* Actions *)

\* measure_file, one iteration: read_until returned Ok(n), n > 0
MeasureIter ==
    /\ action = "Measure"
    /\ pc = "loop"
    /\ rest # <<>>
    /\ LET buf == read_until(rest)
       IN /\ stat' = Tally(stat, buf)
          /\ rest' = DropFirst(rest, Len(buf))
    /\ UNCHANGED <<src, action, pc, pure, bufw, sink, sinkKind, sinkRoom,
                   result, readFailed, hist>>

\* convert_to, one iteration: read_until returned Ok(n), n > 0
ConvertIter ==
    /\ action # "Measure"
    /\ pc = "loop"
    /\ rest # <<>>
    /\ LET buf == read_until(rest)
           w == ConvertChunk(Writer, buf, Target(action))
           d == IF w.err THEN BufDrop(w) ELSE w
       IN /\ rest' = DropFirst(rest, Len(buf))
          /\ bufw' = d.buf
          /\ sink' = d.sink
          /\ sinkRoom' = d.room
          /\ pc' = IF w.err THEN "done" ELSE "loop"
          /\ result' = IF w.err THEN "Err" ELSE result
    /\ UNCHANGED <<src, action, stat, pure, sinkKind, readFailed, hist>>

\* read_until returned Ok(0): break
ReadEof ==
    /\ pc = "loop"
    /\ rest = <<>>
    /\ pc' = "break"
    /\ UNCHANGED <<src, rest, action, stat, pure, bufw, sink, sinkKind,
                   sinkRoom, result, readFailed, hist>>

\* read_until returned Err(_): break
ReadError ==
    /\ pc = "loop"
    /\ pc' = "break"
    /\ readFailed' = TRUE
    /\ UNCHANGED <<src, rest, action, stat, pure, bufw, sink, sinkKind,
                   sinkRoom, result, hist>>

\* measure_file: return stat; the caller asks is_pure()
MeasureReturn ==
    /\ action = "Measure"
    /\ pc = "break"
    /\ pc' = "done"
    /\ result' = "Ok"
    /\ pure' = is_pure(stat)
    /\ UNCHANGED <<src, rest, action, stat, bufw, sink, sinkKind, sinkRoom,
                   readFailed, hist>>

\* convert_to: Ok(()), dest goes out of scope
ConvertReturn ==
    /\ action # "Measure"
    /\ pc = "break"
    /\ LET d == BufDrop(Writer)
       IN /\ bufw' = d.buf
          /\ sink' = d.sink
          /\ sinkRoom' = d.room
    /\ pc' = "done"
    /\ result' = "Ok"
    /\ UNCHANGED <<src, rest, action, stat, pure, sinkKind, readFailed, hist>>

\* The caller runs another operation on the outcome: the bytes convert_to
\* produced (main.rs writes them back to the file), or the same bytes after a
\* measurement.
NextCall ==
    /\ pc = "done"
    /\ result = "Ok"
    /\ Len(hist) < MaxCalls - 1
    /\ hist' = Append(hist, [action |-> action, src |-> src])
    /\ src' = IF action = "Measure" THEN src ELSE sink
    /\ rest' = src'
    /\ action' \in Action
    /\ pc' = "loop"
    /\ stat' = CrlfStat_new
    /\ pure' = "unset"
    /\ bufw' = <<>>
    /\ sink' = <<>>
    /\ result' = "running"
    /\ UNCHANGED <<sinkKind, sinkRoom, readFailed>>

Next ==
    \/ MeasureIter
    \/ ConvertIter
    \/ ReadEof
    \/ MeasureReturn
    \/ ConvertReturn
    \/ NextCall

NextIO ==
    \/ MeasureIter
    \/ ConvertIter
    \/ ReadEof
    \/ ReadError
    \/ MeasureReturn
    \/ ConvertReturn

Spec == Init /\ [][Next]_vars

SpecIO == InitIO /\ [][NextIO]_vars

----------------------------------------------------------------------------
(* Vocabulary of the properties *)

RECURSIVE CountLF(_)
CountLF(s) == IF s = <<>> THEN 0
              ELSE (IF s[1] = LF THEN 1 ELSE 0) + CountLF(Tail(s))

EndsWithLF(s) == s # <<>> /\ s[Len(s)] = LF

EndsWithCrLf(s) == Len(s) >= 2 /\ s[Len(s) - 1] = CR /\ s[Len(s)] = LF

\* the bytes after the last LF of s
Fragment(s) ==
    LET lfs == {i \in 1..Len(s) : s[i] = LF}
        k == IF lfs = {} THEN 0 ELSE CHOOSE i \in lfs : \A j \in lfs : j <= i
    IN SubSeq(s, k + 1, Len(s))

\* number of read_until chunks a stream holding s splits into
Chunks(s) == CountLF(s) + (IF Fragment(s) # <<>> THEN 1 ELSE 0)

\* the part of src already delivered
Consumed == SubSeq(src, 1, Len(src) - Len(rest))

HasCrCrLf(s) ==
    \E i \in 1..(Len(s) - 2) : s[i] = CR /\ s[i + 1] = CR /\ s[i + 2] = LF

\* Reference normalisation, byte by byte: an LF becomes the terminator of e,
\* a CR directly before an LF disappears, every other byte stays.
RECURSIVE NormaliseFrom(_, _, _)
NormaliseFrom(s, i, e) ==
    IF i > Len(s) THEN <<>>
    ELSE (IF s[i] = 10 THEN (IF e = "CRLF" THEN <<13, 10>> ELSE <<10>>)
          ELSE IF s[i] = 13 /\ i < Len(s) /\ s[i + 1] = 10 THEN <<>>
          ELSE <<s[i]>>)
         \o NormaliseFrom(s, i + 1, e)

Normalise(s, e) == NormaliseFrom(s, 1, e)

ConvertDone == action # "Measure" /\ pc = "done"

MeasureDone == action = "Measure" /\ pc = "done"

PrevCall == hist[Len(hist)]

----------------------------------------------------------------------------
(* Properties *)

\* C1: convert_to writes exactly the reference normalisation of its input:
\* every LF, with at most one CR directly before it, is replaced by the
\* target's terminator and every other byte is kept, in order.
C1_ConvertNormalises ==
    ConvertDone =>
        /\ result = "Ok"
        /\ sink = Normalise(src, Target(action))
        /\ (src = <<97, 10, 97, 13, 10>> /\ action = "SetCrlf")
              => sink = <<97, 13, 10, 97, 13, 10>>
        /\ (src = <<97, 13, 13, 10>> /\ action = "SetLf")
              => sink = <<97, 13, 10>>

C1_Witness ==
    /\ ConvertDone
    /\ action = "SetCrlf"
    /\ src = <<97, 10, 97, 13, 10>>
    /\ sink = <<97, 13, 10, 97, 13, 10>>

\* C2: measure_file increments crlf iff the chunk's last two bytes are
\* exactly CR LF, and lf otherwise, for every chunk, the final unterminated
\* fragment included.
C2_SuffixMatch ==
    [][(action = "Measure" /\ pc = "loop" /\ rest # <<>> /\ rest' # rest)
         => LET buf == read_until(rest)
            IN /\ (stat'.crlf = stat.crlf + 1) <=> EndsWithCrLf(buf)
               /\ (stat'.lf = stat.lf + 1) <=> ~EndsWithCrLf(buf)]_vars

\* C3 as stated: converting the output of a conversion to the same target
\* again reproduces it byte for byte, for every input and both targets.
C3_Idempotent ==
    (ConvertDone /\ hist # <<>> /\ PrevCall.action = action) => sink = src

\* C3 amended: converting the output of a conversion to the same target
\* again reproduces it byte for byte, for target CRLF on every input and for
\* target LF on every input in which no CR CR LF occurs.
C3_IdempotentNoCrCrLf ==
    (ConvertDone /\ hist # <<>> /\ PrevCall.action = action
        /\ (action = "SetLf" => ~HasCrCrLf(PrevCall.src)))
    => sink = src

C3_Witness ==
    /\ ConvertDone
    /\ action = "SetCrlf"
    /\ hist = <<[action |-> "SetCrlf", src |-> <<97, 10, 13, 10>>]>>
    /\ src = <<97, 13, 10, 13, 10>>
    /\ sink = src

\* C4 as stated: whenever S has at least one LF, measuring convert_to(S, T)
\* gives is_pure() = Some(T).
C4_PureAfterConvert ==
    (MeasureDone /\ hist # <<>> /\ PrevCall.action # "Measure"
        /\ CountLF(PrevCall.src) >= 1)
    => pure = Target(PrevCall.action)

\* C4 amended: for S with at least one LF-terminated line, measuring
\* convert_to(S, T) gives is_pure() = Some(T) when T = CRLF and S ends with
\* LF, and when T = LF, no CR CR LF occurs in S and the unterminated final
\* fragment of S, if any, does not have CR as its second-to-last byte.
C4_PureAfterConvertTerminated ==
    (MeasureDone /\ hist # <<>> /\ PrevCall.action # "Measure"
        /\ CountLF(PrevCall.src) >= 1
        /\ (PrevCall.action = "SetCrlf" => EndsWithLF(PrevCall.src))
        /\ (PrevCall.action = "SetLf" =>
               /\ ~HasCrCrLf(PrevCall.src)
               /\ ~IsCrlfChunk(Fragment(PrevCall.src))))
    => pure = Target(PrevCall.action)

C4_Witness ==
    /\ MeasureDone
    /\ hist = <<[action |-> "SetCrlf", src |-> <<97, 10, 13, 13, 10>>]>>
    /\ pure = "CRLF"

\* C5: converting to CRLF and then to LF gives the same bytes as converting
\* the original directly to LF.
C5_CrossTarget ==
    (ConvertDone /\ action = "SetLf" /\ hist # <<>>
        /\ PrevCall.action = "SetCrlf")
    => sink = convert_to(PrevCall.src, "LF")

C5_Witness ==
    /\ ConvertDone
    /\ action = "SetLf"
    /\ hist = <<[action |-> "SetCrlf", src |-> <<97, 10, 97, 13, 10>>]>>
    /\ sink = <<97, 10, 97, 10>>

\* C6: convert_to neither invents nor drops a terminator: the output has as
\* many LF bytes as the input, ends with LF iff the input does, carries the
\* input's unterminated final fragment verbatim, and is empty, with success,
\* for an empty input.
C6_NoTerminatorInvented ==
    ConvertDone =>
        /\ CountLF(sink) = CountLF(src)
        /\ EndsWithLF(sink) <=> EndsWithLF(src)
        /\ Fragment(sink) = Fragment(src)
        /\ src = <<>> => (sink = <<>> /\ result = "Ok")

C6_Witness ==
    /\ ConvertDone
    /\ action = "SetCrlf"
    /\ src = <<97, 10, 97, 13>>
    /\ sink = <<97, 13, 10, 97, 13>>

\* C7: both counters start at 0, every non-empty read adds exactly 1 to
\* exactly one of them, so lf + crlf is the number of chunks consumed, and
\* at the end of the scan it is the number of LF bytes of S plus 1 when S
\* ends with a non-empty unterminated fragment.
C7_CountsChunks ==
    /\ [](action = "Measure" =>
            /\ stat.lf + stat.crlf = Chunks(Consumed)
            /\ rest = src => stat = [lf |-> 0, crlf |-> 0]
            /\ pc \in {"break", "done"} =>
                 stat.lf + stat.crlf
                   = CountLF(src)
                     + (IF src # <<>> /\ ~EndsWithLF(src) THEN 1 ELSE 0))
    /\ [][(action = "Measure" /\ pc = "loop" /\ rest' # rest)
            => \/ stat'.lf = stat.lf + 1 /\ stat'.crlf = stat.crlf
               \/ stat'.crlf = stat.crlf + 1 /\ stat'.lf = stat.lf]_vars

C7_Witness ==
    /\ MeasureDone
    /\ src = <<13, 10, 10, 97>>
    /\ stat = [lf |-> 2, crlf |-> 1]

\* C8: a failed read is reported: when a read fails during measure_file or
\* convert_to the call ends with an I/O failure, not with a statistic or a
\* success computed from the bytes read before.
C8_ReadFailureReported ==
    (pc = "done" /\ readFailed) => result = "Err"

\* C9: when convert_to returns success the sink holds the entire normalised
\* byte sequence, also when the sink fails a write or a flush or accepts only
\* part of the bytes of a write.
C9_SuccessMeansWritten ==
    (ConvertDone /\ result = "Ok" /\ ~readFailed)
    => (sink = convert_to(src, Target(action)) /\ bufw = <<>>)

\* C10: is_pure is Some(CRLF) iff lf = 0 and crlf > 0, Some(LF) iff crlf = 0
\* and lf > 0, None otherwise; an empty stream measures (0, 0) and None.
C10_IsPure ==
    MeasureDone =>
        /\ pure = "CRLF" <=> (stat.lf = 0 /\ stat.crlf > 0)
        /\ pure = "LF" <=> (stat.crlf = 0 /\ stat.lf > 0)
        /\ pure = "None" <=> ~(stat.lf = 0 /\ stat.crlf > 0)
                              /\ ~(stat.crlf = 0 /\ stat.lf > 0)
        /\ src = <<>> => (stat = [lf |-> 0, crlf |-> 0] /\ pure = "None")

C10_Witness ==
    /\ MeasureDone
    /\ src = <<97, 13, 10, 13, 10>>
    /\ stat = [lf |-> 0, crlf |-> 2]
    /\ pure = "CRLF"

====
